---- MODULE Spec2Model ----
(***************************************************************************)
(* Model of dblp2bibtex.py (bibutil): citation extraction from a LaTeX     *)
(* .aux file, the alias tables, the DBLP record fetcher and the batch      *)
(* driver.                                                                 *)
(*                                                                         *)
(* A Python str is a sequence of tokens.  A token is one character, except *)
(* for fixed texts the program never looks inside (the endpoint URLs, the  *)
(* words of the error message, the name of a LaTeX command), which are one *)
(* token each.  Indices passed between the string operators are Python's   *)
(* 0-based indices; -1 is "not found".                                     *)
(*                                                                         *)
(* Inputs left out: a citation key with a backslash (re.sub reads the      *)
(* replacement as a template and may raise re.error outside the try), an   *)
(* alias file that cannot be opened, a yaml file without "aliases".        *)
(***************************************************************************)
EXTENDS Integers, Sequences, FiniteSets, TLC

VARIABLES pc, args, fs, latex_citations, gBibStyle, ALIAS, REVALIAS,
          dblp_citations, idx, fetch_data, success, outfile, status, attempts

vars == <<pc, args, fs, latex_citations, gBibStyle, ALIAS, REVALIAS,
          dblp_citations, idx, fetch_data, success, outfile, status, attempts>>

(***************************************************************************)
(* Bounds of the model.                                                    *)
(***************************************************************************)
MaxKeys == 2
MaxAuxLines == 2
MaxLegacyLines == 2
MaxArgLen == 2

(***************************************************************************)
(* Python str operations.                                                  *)
(***************************************************************************)
Min(S) == CHOOSE x \in S : \A y \in S : x <= y

Max(S) == CHOOSE x \in S : \A y \in S : x >= y

\* str.find(sub, start)
Find(s, sub, start) ==
  LET cands == {i \in start..(Len(s) - Len(sub)) : SubSeq(s, i + 1, i + Len(sub)) = sub}
  IN  IF cands = {} THEN -1 ELSE Min(cands)

\* sub in s
Contains(s, sub) == Find(s, sub, 0) >= 0

\* one bound of a slice, clamped as Python clamps it
SliceIndex(s, i) ==
  IF i < 0 THEN (IF Len(s) + i < 0 THEN 0 ELSE Len(s) + i)
  ELSE (IF i > Len(s) THEN Len(s) ELSE i)

\* s[a:b]
Slice(s, a, b) == SubSeq(s, SliceIndex(s, a) + 1, SliceIndex(s, b))

\* s[a:]
SliceFrom(s, a) == SubSeq(s, SliceIndex(s, a) + 1, Len(s))

\* s.strip(chars)
RECURSIVE LStrip(_, _)
LStrip(s, chars) ==
  IF s # <<>> /\ Head(s) \in chars THEN LStrip(Tail(s), chars) ELSE s

RECURSIVE RStrip(_, _)
RStrip(s, chars) ==
  IF s # <<>> /\ s[Len(s)] \in chars THEN RStrip(SubSeq(s, 1, Len(s) - 1), chars) ELSE s

Strip(s, chars) == RStrip(LStrip(s, chars), chars)

\* the whitespace characters of the model
Whitespace == {" ", "\n"}

\* s.split(sep), sep one character
RECURSIVE Split(_, _)
Split(s, sep) ==
  LET i == Find(s, <<sep>>, 0)
  IN  IF i < 0 THEN <<s>>
      ELSE <<SubSeq(s, 1, i)>> \o Split(SubSeq(s, i + 2, Len(s)), sep)

\* s.split(): runs of whitespace separate the words, no empty word
RECURSIVE SplitWords(_)
SplitWords(s) ==
  LET t == LStrip(s, Whitespace)
      ends == {i \in 1..Len(t) : t[i] \in Whitespace}
      e == IF ends = {} THEN Len(t) + 1 ELSE Min(ends)
  IN  IF t = <<>> THEN <<>>
      ELSE <<SubSeq(t, 1, e - 1)>> \o SplitWords(SubSeq(t, e, Len(t)))

\* code point order of the tokens (a command name sorts by its text)
Ord(c) ==
  CASE c = "\n" -> 10
    [] c = " " -> 32
    [] c = "%" -> 37
    [] c = "," -> 44
    [] c = "/" -> 47
    [] c = ":" -> 58
    [] c = "=" -> 61
    [] c = "@" -> 64
    [] c = "B" -> 66
    [] c = "D" -> 68
    [] c = "I" -> 73
    [] c = "L" -> 76
    [] c = "O" -> 79
    [] c = "P" -> 80
    [] c = "\\abx@aux@cite" -> 92
    [] c = "\\bibstyle" -> 93
    [] c = "\\citation" -> 94
    [] c = "a" -> 97
    [] c = "b" -> 98
    [] c = "c" -> 99
    [] c = "k" -> 107
    [] c = "t" -> 116
    [] c = "v" -> 118
    [] c = "x" -> 120
    [] c = "y" -> 121
    [] c = "{" -> 123
    [] c = "}" -> 125
    [] OTHER -> 200

\* s < t for Python str
RECURSIVE StrLess(_, _)
StrLess(s, t) ==
  IF t = <<>> THEN FALSE
  ELSE IF s = <<>> THEN TRUE
  ELSE IF Head(s) = Head(t) THEN StrLess(Tail(s), Tail(t))
  ELSE Ord(Head(s)) < Ord(Head(t))

\* sorted(S) of a set of str
RECURSIVE Sorted(_)
Sorted(S) ==
  IF S = {} THEN <<>>
  ELSE LET m == CHOOSE x \in S : \A y \in S : x = y \/ StrLess(x, y)
       IN  <<m>> \o Sorted(S \ {m})

\* the elements of a list
Range(s) == {s[i] : i \in 1..Len(s)}

\* [y for x in lists for y in x]
RECURSIVE Flatten(_)
Flatten(lists) ==
  IF lists = <<>> THEN <<>> ELSE Head(lists) \o Flatten(Tail(lists))

(***************************************************************************)
(* Citation Extractor.                                                     *)
(***************************************************************************)
CitationMarker == <<"\\citation", "{">>

AbxMarker == <<"\\abx@aux@cite", "{">>

BibstyleMarker == <<"\\bibstyle">>

find_citation(l) ==
  IF Find(l, CitationMarker, 0) >= 0 \/ Find(l, AbxMarker, 0) >= 0
  THEN LET y == Find(l, <<"{">>, 0)
           z == Find(l, <<"}">>, y)
       IN  Slice(l, y + 1, z)
  ELSE <<>>

\* the lines of the file as load_references first reads them
StrippedLines(file) == [i \in 1..Len(file) |-> Strip(file[i], Whitespace)]

\* the \bibstyle lines of the file
BibstyleLines(file) ==
  LET IsStyle(x) == Find(x, BibstyleMarker, 0) >= 0
  IN  SelectSeq(StrippedLines(file), IsStyle)

\* the single \bibstyle line is split without a check: x[1] raises IndexError
BibstyleRaises(file) ==
  /\ Len(BibstyleLines(file)) = 1
  /\ Len(Split(BibstyleLines(file)[1], "{")) < 2

BibstyleOf(file, old) ==
  IF Len(BibstyleLines(file)) = 1
  THEN Split(Split(BibstyleLines(file)[1], "{")[2], "}")[1]
  ELSE old

\* the list load_references returns for the lines of the file it read
ExtractCitations(file) ==
  LET found == [i \in 1..Len(file) |-> find_citation(StrippedLines(file)[i])]
      NonEmpty(c) == c # <<>>
      kept == SelectSeq(found, NonEmpty)
      stripped == [i \in 1..Len(kept) |-> Strip(kept[i], {" "})]
      split == [i \in 1..Len(stripped) |-> Split(stripped[i], ",")]
  IN  Sorted(Range(Flatten(split)))

(***************************************************************************)
(* Python dict: the items in insertion order, each <<key, value>>.         *)
(***************************************************************************)
DictHas(d, k) == \E i \in 1..Len(d) : d[i][1] = k

DictGet(d, k) == d[CHOOSE i \in 1..Len(d) : d[i][1] = k][2]

\* d[k] = v: a new key goes last, a known key keeps its place
DictSet(d, k, v) ==
  IF DictHas(d, k)
  THEN [i \in 1..Len(d) |-> IF d[i][1] = k THEN <<k, v>> ELSE d[i]]
  ELSE Append(d, <<k, v>>)

DictKeys(d) == [i \in 1..Len(d) |-> d[i][1]]

DictValues(d) == [i \in 1..Len(d) |-> d[i][2]]

(***************************************************************************)
(* Alias Table.  tables is the pair of globals [ALIAS, REVALIAS].          *)
(***************************************************************************)
DBLPPrefix == <<"D", "B", "L", "P", ":">>

DOIPrefix == <<"D", "O", "I", ":">>

strip_comment(l) ==
  LET pos == Find(l, <<"%">>, 0)
  IN  IF pos >= 0 THEN Slice(l, 0, pos) ELSE l

\* one line of the bibcloud alias file
RegisterLegacyLine(tables, line) ==
  LET x == SplitWords(strip_comment(Strip(line, Whitespace)))
  IN  IF Len(x) >= 2 /\ (Find(x[2], DBLPPrefix, 0) >= 0 \/ Find(x[2], DOIPrefix, 0) >= 0)
      THEN [ALIAS |-> DictSet(tables.ALIAS, x[1], x[2]),
            REVALIAS |-> DictSet(tables.REVALIAS, x[2], x[1])]
      ELSE tables

RECURSIVE LoadBibcloud(_, _)
LoadBibcloud(tables, lines) ==
  IF lines = <<>> THEN tables
  ELSE LoadBibcloud(RegisterLegacyLine(tables, Head(lines)), Tail(lines))

\* one item of data["aliases"] of the yaml alias file
RegisterAlias(tables, alias, key) ==
  LET rev == DictSet(tables.REVALIAS, key, alias)
  IN  [ALIAS |-> DictSet(tables.ALIAS, alias, key),
       REVALIAS |-> IF Contains(key, <<"D", "B", "L", "P">>)
                    THEN DictSet(rev, SliceFrom(key, 5), alias)
                    ELSE rev]

RECURSIVE LoadAliasfile(_, _)
LoadAliasfile(tables, items) ==
  IF items = <<>> THEN tables
  ELSE LoadAliasfile(RegisterAlias(tables, Head(items)[1], Head(items)[2]), Tail(items))

(***************************************************************************)
(* Record Fetcher.                                                         *)
(***************************************************************************)
\* tmp[0] == "@" and tmp[-3] == "}": an index out of range raises IndexError
validate_bib(tmp) ==
  IF Len(tmp) < 1 THEN "raise"
  ELSE IF tmp[1] # "@" THEN "false"
  ELSE IF Len(tmp) < 3 THEN "raise"
  ELSE IF tmp[Len(tmp) - 2] = "}" THEN "true"
  ELSE "false"

UrlDBLP == <<"https://dblp.uni-trier.de/rec">>

UrlDOI == <<"https://dblp.org/doi">>

\* the key download_dblp requests for a label
FetchKey(label) ==
  IF Contains(label, DBLPPrefix) THEN SliceFrom(label, 5)
  ELSE IF Contains(label, DOIPrefix) THEN SliceFrom(label, 4)
  ELSE label

FetchUrl(label) ==
  (IF Contains(label, DBLPPrefix) THEN UrlDBLP ELSE UrlDOI)
    \o <<"/">> \o FetchKey(label) \o <<".bib">>

ErrorMessage(label) ==
  <<"ERROR key: ">> \o FetchKey(label) \o <<", url: ">> \o FetchUrl(label)

\* the ends (index of the comma) of the matches of '{.+,' that start at i
MatchEnds(bib, i) ==
  {j \in (i + 2)..(Len(bib) - 1) :
     /\ bib[j + 1] = ","
     /\ \A m \in (i + 1)..(j - 1) : bib[m + 1] # "\n"}

\* re.sub('{.+,', '{' + rep + ',', bib, count=1): leftmost match, greedy
ReSubKey(bib, rep) ==
  LET starts == {i \in 0..(Len(bib) - 1) : bib[i + 1] = "{" /\ MatchEnds(bib, i) # {}}
  IN  IF starts = {} THEN bib
      ELSE LET i == Min(starts)
               j == Max(MatchEnds(bib, i))
           IN  Slice(bib, 0, i) \o <<"{">> \o rep \o <<",">> \o SliceFrom(bib, j + 1)

\* the return value when download_dblp returns: ret is None iff ~some
Returned(some, ret, err) ==
  [exit |-> FALSE, some |-> some, ret |-> ret, err |-> err]

\* variant: no except KeyboardInterrupt clause, the bare except catches it
download_dblp_CatchAll(label, rev, outcome) ==
  IF outcome.kind \in {"interrupt", "raise"} THEN Returned(FALSE, <<>>, <<>>)
  ELSE IF validate_bib(outcome.text) # "true"
  THEN Returned(FALSE, <<>>, ErrorMessage(label))
  ELSE LET rep == IF DictHas(rev, label) THEN DictGet(rev, label) ELSE label
       IN  Returned(TRUE, ReSubKey(outcome.text, rep), ErrorMessage(label))

\* download_dblp(label) when requests.get ends as outcome says:
\* [kind |-> "text", text |-> the body], [kind |-> "raise"] another
\* exception, or [kind |-> "interrupt"] a KeyboardInterrupt
download_dblp(label, rev, outcome) ==
  IF outcome.kind = "interrupt"
  THEN [exit |-> TRUE, some |-> FALSE, ret |-> <<>>, err |-> <<>>]
  ELSE IF outcome.kind = "raise" THEN Returned(FALSE, <<>>, <<>>)
  ELSE IF validate_bib(outcome.text) # "true"
  THEN Returned(FALSE, <<>>, ErrorMessage(label))
  ELSE LET rep == IF DictHas(rev, label) THEN DictGet(rev, label) ELSE label
       IN  Returned(TRUE, ReSubKey(outcome.text, rep), ErrorMessage(label))

(***************************************************************************)
(* Batch Driver: the helpers of the module-level code.                     *)
(***************************************************************************)
\* variant: the explicit keys are used only when the aux file gave no key
KeysOverride_AuxFirst(latex, keys) == IF Len(latex) > 0 THEN latex ELSE keys

\* if len(args.keys) > 0: latex_citations = args.keys
KeysOverride(latex, keys) == IF Len(keys) > 0 THEN keys ELSE latex

\* variant: the fallback fetches ALIAS.keys() in place of ALIAS.values()
ResolveCitations_Keys(latex, alias) ==
  IF Len(latex) = 0 THEN DictKeys(alias)
  ELSE [i \in 1..Len(latex) |-> IF DictHas(alias, latex[i])
                                 THEN DictGet(alias, latex[i])
                                 ELSE latex[i]]

\* dblp_citations from latex_citations and ALIAS
ResolveCitations(latex, alias) ==
  IF Len(latex) = 0 THEN DictValues(alias)
  ELSE [i \in 1..Len(latex) |-> IF DictHas(alias, latex[i])
                                 THEN DictGet(alias, latex[i])
                                 ELSE latex[i]]

\* variant: success is counted for every key
CollectFetched_CountAll(acc, r) ==
  IF r.some /\ r.ret # <<>>
  THEN [fetch_data |-> Append(acc.fetch_data, r.ret), success |-> acc.success + 1]
  ELSE [fetch_data |-> acc.fetch_data, success |-> acc.success + 1]

\* the body of the loop of download_refs after download_dblp returned r
CollectFetched(acc, r) ==
  IF r.some /\ r.ret # <<>>
  THEN [fetch_data |-> Append(acc.fetch_data, r.ret), success |-> acc.success + 1]
  ELSE acc

\* how load_references(args.aux) ends on the file system fsv
load_references(fsv, style) ==
  IF ~fsv.name.exists /\ ~fsv.aux.exists
  THEN [end |-> "exit", value |-> <<>>, style |-> style]
  ELSE IF ~fsv.name.exists \/ BibstyleRaises(fsv.name.lines)
  THEN [end |-> "crash", value |-> <<>>, style |-> style]
  ELSE [end |-> "return", value |-> ExtractCitations(fsv.name.lines),
        style |-> BibstyleOf(fsv.name.lines, style)]

(***************************************************************************)
(* The inputs of the model.                                                *)
(***************************************************************************)
KeyDBLP == DBLPPrefix \o <<"k">>

KeyDOI == DOIPrefix \o <<"x">>

Cite(marker, keys) == marker \o keys \o <<"}">>

\* response bodies: a record as DBLP sends it, a record on one line, a
\* record without a field, a body that is no record, an empty body
RecStd == <<"@", "t", "{">> \o KeyDBLP \o <<",", "\n", "x", "=", "v", ",", "\n", "}", "\n", "\n">>

RecOneLine == <<"@", "t", "{">> \o KeyDBLP \o <<",", "x", "=", "v", ",", "}", "\n", "\n">>

RecNoField == <<"@", "t", "{", "k", "}", "\n", "\n">>

Responses == {RecStd, RecOneLine, RecNoField, <<"x">>, <<>>}

Outcomes ==
  {[kind |-> "text", text |-> t] : t \in Responses}
    \cup {[kind |-> "raise", text |-> <<>>], [kind |-> "interrupt", text |-> <<>>]}

\* the lists of length at most n over S
SeqsUpTo(S, n) == UNION {[1..m -> S] : m \in 0..n}

NoFile == [exists |-> FALSE, lines |-> <<>>]

File(lines) == [exists |-> TRUE, lines |-> lines]

\* an option with a file that was not given, or given with the content of its file
NotGiven == [given |-> FALSE, content |-> <<>>]

Given(content) == [given |-> TRUE, content |-> content]

DriverKeys == {KeyDBLP, KeyDOI, <<"a">>}

\* --aux not given or given, and the files <name> and <name>.aux
DriverAux ==
  {[given |-> FALSE, name |-> NoFile, aux |-> NoFile],
   [given |-> TRUE, name |-> NoFile, aux |-> NoFile],
   [given |-> TRUE, name |-> NoFile, aux |-> File(<<Cite(CitationMarker, <<"a">>)>>)],
   [given |-> TRUE, name |-> File(<<>>), aux |-> NoFile],
   [given |-> TRUE, name |-> File(<<Cite(CitationMarker, <<"b", ",", "a">>)>>), aux |-> NoFile]}

DriverBibcloud ==
  {NotGiven,
   Given(<< <<"a", " ">> \o KeyDBLP >>),
   Given(<< <<"a", " ">> \o KeyDBLP, <<"b", " ">> \o KeyDOI >>)}

DriverAliasfile ==
  {NotGiven,
   Given(<< << <<"a">>, KeyDOI >> >>),
   Given(<< << <<"b">>, KeyDBLP >>, << <<"a">>, KeyDBLP >>, << <<"c">>, KeyDOI >> >>)}

(***************************************************************************)
(* The run of the script.                                                  *)
(***************************************************************************)
InitRun ==
  /\ pc = "start"
  /\ latex_citations = <<>>
  /\ gBibStyle = <<>>
  /\ ALIAS = <<>>
  /\ REVALIAS = <<>>
  /\ dblp_citations = <<>>
  /\ idx = 0
  /\ fetch_data = <<>>
  /\ success = 0
  /\ outfile = [written |-> FALSE, data |-> <<>>]
  /\ status = -1
  /\ attempts = <<>>

Init ==
  /\ InitRun
  /\ \E keys \in SeqsUpTo(DriverKeys, MaxKeys), x \in DriverAux,
        b \in DriverBibcloud, a \in DriverAliasfile :
       /\ args = [keys |-> keys, aux |-> x.given, bibcloud |-> b, aliasfile |-> a]
       /\ fs = [name |-> x.name, aux |-> x.aux]

\* lines 362-364
CheckArgs ==
  /\ pc = "start"
  /\ IF Len(args.keys) = 0 /\ ~args.aliasfile.given /\ ~args.bibcloud.given
     THEN pc' = "exit" /\ status' = 1
     ELSE pc' = "aux" /\ status' = status
  /\ UNCHANGED <<args, fs, latex_citations, gBibStyle, ALIAS, REVALIAS,
                 dblp_citations, idx, fetch_data, success, outfile, attempts>>

\* lines 366-368
LoadReferences ==
  /\ pc = "aux"
  /\ LET r == load_references(fs, gBibStyle)
     IN  IF ~args.aux
         THEN pc' = "keys" /\ UNCHANGED <<latex_citations, gBibStyle, status>>
         ELSE /\ pc' = IF r.end = "return" THEN "keys" ELSE r.end
              /\ status' = IF r.end = "return" THEN status ELSE 1
              /\ latex_citations' = r.value
              /\ gBibStyle' = r.style
  /\ UNCHANGED <<args, fs, ALIAS, REVALIAS, dblp_citations, idx, fetch_data,
                 success, outfile, attempts>>

\* lines 371-372
UseKeys ==
  /\ pc = "keys"
  /\ latex_citations' = KeysOverride(latex_citations, args.keys)
  /\ pc' = "bibcloud"
  /\ UNCHANGED <<args, fs, gBibStyle, ALIAS, REVALIAS, dblp_citations, idx,
                 fetch_data, success, outfile, status, attempts>>

\* lines 376-394
ReadBibcloud ==
  /\ pc = "bibcloud"
  /\ LET t == IF args.bibcloud.given
              THEN LoadBibcloud([ALIAS |-> ALIAS, REVALIAS |-> REVALIAS], args.bibcloud.content)
              ELSE [ALIAS |-> ALIAS, REVALIAS |-> REVALIAS]
     IN  ALIAS' = t.ALIAS /\ REVALIAS' = t.REVALIAS
  /\ pc' = "aliasfile"
  /\ UNCHANGED <<args, fs, latex_citations, gBibStyle, dblp_citations, idx,
                 fetch_data, success, outfile, status, attempts>>

\* lines 396-402
ReadAliasfile ==
  /\ pc = "aliasfile"
  /\ LET t == IF args.aliasfile.given
              THEN LoadAliasfile([ALIAS |-> ALIAS, REVALIAS |-> REVALIAS], args.aliasfile.content)
              ELSE [ALIAS |-> ALIAS, REVALIAS |-> REVALIAS]
     IN  ALIAS' = t.ALIAS /\ REVALIAS' = t.REVALIAS
  /\ pc' = "resolve"
  /\ UNCHANGED <<args, fs, latex_citations, gBibStyle, dblp_citations, idx,
                 fetch_data, success, outfile, status, attempts>>

\* lines 405-409, and the call of download_refs
Resolve ==
  /\ pc = "resolve"
  /\ dblp_citations' = ResolveCitations(latex_citations, ALIAS)
  /\ idx' = 0
  /\ fetch_data' = <<>>
  /\ success' = 0
  /\ pc' = "fetch"
  /\ UNCHANGED <<args, fs, latex_citations, gBibStyle, ALIAS, REVALIAS,
                 outfile, status, attempts>>

\* one turn of the loop of download_refs
Fetch ==
  /\ pc = "fetch"
  /\ idx < Len(dblp_citations)
  /\ \E outcome \in Outcomes :
       LET c == dblp_citations[idx + 1]
           r == download_dblp(c, REVALIAS, outcome)
           acc == CollectFetched([fetch_data |-> fetch_data, success |-> success], r)
       IN  /\ attempts' = Append(attempts, [label |-> c, outcome |-> outcome, result |-> r])
           /\ IF r.exit
              THEN /\ pc' = "exit"
                   /\ status' = 0
                   /\ UNCHANGED <<idx, fetch_data, success>>
              ELSE /\ pc' = pc
                   /\ status' = status
                   /\ idx' = idx + 1
                   /\ fetch_data' = acc.fetch_data
                   /\ success' = acc.success
  /\ UNCHANGED <<args, fs, latex_citations, gBibStyle, ALIAS, REVALIAS,
                 dblp_citations, outfile>>

\* download_refs returns
FetchReturn ==
  /\ pc = "fetch"
  /\ idx = Len(dblp_citations)
  /\ pc' = "write"
  /\ UNCHANGED <<args, fs, latex_citations, gBibStyle, ALIAS, REVALIAS,
                 dblp_citations, idx, fetch_data, success, outfile, status, attempts>>

\* lines 418-420
WriteOutput ==
  /\ pc = "write"
  /\ outfile' = [written |-> TRUE, data |-> Flatten(fetch_data)]
  /\ pc' = "done"
  /\ status' = 0
  /\ UNCHANGED <<args, fs, latex_citations, gBibStyle, ALIAS, REVALIAS,
                 dblp_citations, idx, fetch_data, success, attempts>>

Next ==
  \/ CheckArgs
  \/ LoadReferences
  \/ UseKeys
  \/ ReadBibcloud
  \/ ReadAliasfile
  \/ Resolve
  \/ Fetch
  \/ FetchReturn
  \/ WriteOutput

Spec == Init /\ [][Next]_vars

(***************************************************************************)
(* The script up to the fetch loop, on many aux files and alias files.     *)
(***************************************************************************)
\* the brace arguments of the citation lines
AuxArgs == SeqsUpTo({"a", "b", ",", " "}, MaxArgLen)

AuxLines ==
  {Cite(CitationMarker, a) : a \in AuxArgs}
    \cup {Cite(AbxMarker, a) : a \in {<<"a">>, <<"c", ",", "a">>}}
    \cup {<<"x">>,
          <<" ">> \o Cite(CitationMarker, <<"b">>) \o <<" ">>,
          <<"{", "x", "}">> \o Cite(CitationMarker, <<"a">>),
          CitationMarker \o <<"a", "b">>,
          BibstyleMarker \o <<"{", "x", "}">>,
          BibstyleMarker}

LegacyLines ==
  {<<"a", " ">> \o KeyDBLP,
   <<"a", " ">> \o KeyDOI,
   <<"b", " ">> \o KeyDBLP,
   <<" ", "b", " ", " ">> \o KeyDOI \o <<" ">>,
   <<"a", " ">> \o KeyDBLP \o <<" ", "%", "c">>,
   <<"%", "a", " ">> \o KeyDBLP,
   <<"a", " ", "x">>,
   <<"a">>,
   <<>>}

\* data["aliases"]: a mapping, so no alias occurs twice
AliasValues == {KeyDBLP, KeyDOI, <<"x">>}

AliasDicts ==
  {d \in SeqsUpTo({<<"a">>, <<"b">>} \X AliasValues, 2) :
     \A i, j \in 1..Len(d) : i # j => d[i][1] # d[j][1]}

InitLoad ==
  /\ InitRun
  /\ \/ \E file \in SeqsUpTo(AuxLines, MaxAuxLines), name, aux \in BOOLEAN :
          /\ args = [keys |-> <<>>, aux |-> TRUE,
                     bibcloud |-> Given(<< <<"a", " ">> \o KeyDBLP >>),
                     aliasfile |-> NotGiven]
          /\ fs = [name |-> IF name THEN File(file) ELSE NoFile,
                   aux |-> IF aux THEN File(file) ELSE NoFile]
     \/ \E lines \in SeqsUpTo(LegacyLines, MaxLegacyLines), d \in AliasDicts,
           b, a \in BOOLEAN :
          /\ args = [keys |-> <<>>, aux |-> FALSE,
                     bibcloud |-> IF b THEN Given(lines) ELSE NotGiven,
                     aliasfile |-> IF a THEN Given(d) ELSE NotGiven]
          /\ fs = [name |-> NoFile, aux |-> NoFile]

NextLoad ==
  \/ CheckArgs
  \/ LoadReferences
  \/ UseKeys
  \/ ReadBibcloud
  \/ ReadAliasfile
  \/ Resolve

SpecLoad == InitLoad /\ [][NextLoad]_vars

(***************************************************************************)
(* Definitions shared by the properties.                                   *)
(***************************************************************************)
\* the script has something to do (it passed lines 362-364)
ArgsOk == Len(args.keys) > 0 \/ args.aliasfile.given \/ args.bibcloud.given

Stopped == pc \in {"exit", "crash"}

\* the attempts in which download_dblp returned a record
Successful(i) == ~attempts[i].result.exit /\ attempts[i].result.some

RECURSIVE FetchedRecords(_)
FetchedRecords(as) ==
  IF as = <<>> THEN <<>>
  ELSE (IF ~Head(as).result.exit /\ Head(as).result.some
        THEN <<Head(as).result.ret>> ELSE <<>>) \o FetchedRecords(Tail(as))

\* the citation key of a record: the text after the first opening brace up
\* to the first comma or closing brace
CiteKeyOf(rec) ==
  LET y == Find(rec, <<"{">>, 0)
      ends == {i \in (y + 1)..(Len(rec) - 1) : rec[i + 1] \in {",", "}"}}
  IN  IF y < 0 \/ ends = {} THEN <<>> ELSE Slice(rec, y + 1, Min(ends))

(***************************************************************************)
(* C1: download_dblp returns either (record text, no error message) or     *)
(* (None, a non-empty error message naming the key and the URL), whatever  *)
(* the fetch did short of a cancellation.                                  *)
(***************************************************************************)
C1_ReturnedPair ==
  \A i \in 1..Len(attempts) :
    LET a == attempts[i]
    IN  ~a.result.exit =>
          \/ a.result.some /\ a.result.err = <<>>
          \/ /\ ~a.result.some
             /\ a.result.err # <<>>
             /\ Contains(a.result.err, FetchKey(a.label))
             /\ Contains(a.result.err, FetchUrl(a.label))

(***************************************************************************)
(* C2: the citation key of a fetched record is the alias of the input key  *)
(* when the input key is in the reverse alias table, and otherwise the key *)
(* the source embedded, unchanged.                                         *)
(***************************************************************************)
C2_OutputKey ==
  \A i \in 1..Len(attempts) :
    LET a == attempts[i]
    IN  Successful(i) =>
          CiteKeyOf(a.result.ret) =
            IF DictHas(REVALIAS, a.label) THEN DictGet(REVALIAS, a.label)
            ELSE CiteKeyOf(a.outcome.text)

(***************************************************************************)
(* C3: the key rewrite changes only the text between the first opening     *)
(* brace and the first comma after it: the record up to that brace and     *)
(* from that comma on is as the source sent it.                            *)
(***************************************************************************)
C3_RewriteFrame ==
  \A i \in 1..Len(attempts) :
    LET bib == attempts[i].outcome.text
        ret == attempts[i].result.ret
        y == Find(bib, <<"{">>, 0)
        z == Find(bib, <<",">>, y)
    IN  Successful(i) =>
          IF y < 0 \/ z < 0 THEN ret = bib
          ELSE /\ Slice(ret, 0, y + 1) = Slice(bib, 0, y + 1)
               /\ Len(ret) >= Len(bib) - z
               /\ SliceFrom(ret, Len(ret) - (Len(bib) - z)) = SliceFrom(bib, z)

(***************************************************************************)
(* C5 as stated: the key list is the keys extracted from the aux file when *)
(* --aux was given, whether or not keys were given; else the keys given;   *)
(* else empty.                                                             *)
(***************************************************************************)
C5_AuxFirst ==
  pc = "bibcloud" =>
    latex_citations = IF args.aux THEN ExtractCitations(fs.name.lines)
                      ELSE IF Len(args.keys) > 0 THEN args.keys
                      ELSE <<>>

(***************************************************************************)
(* C5 amended: the key list is the explicit keys when any were given,      *)
(* whether or not --aux was given; else the keys extracted from the aux    *)
(* file when --aux was given; else empty.                                  *)
(***************************************************************************)
C5_KeysFirst ==
  pc = "bibcloud" =>
    latex_citations = IF Len(args.keys) > 0 THEN args.keys
                      ELSE IF args.aux THEN ExtractCitations(fs.name.lines)
                      ELSE <<>>

C5_Witness ==
  /\ pc = "bibcloud"
  /\ args.aux
  /\ Len(args.keys) > 0
  /\ ExtractCitations(fs.name.lines) # <<>>
  /\ latex_citations # ExtractCitations(fs.name.lines)

C7_Resolved ==
  pc \in {"fetch", "write", "done"} =>
    /\ latex_citations = <<>> =>
         /\ Len(dblp_citations) = Len(ALIAS)
         /\ \A i \in 1..Len(ALIAS) : dblp_citations[i] = ALIAS[i][2]
    /\ latex_citations # <<>> =>
         /\ Len(dblp_citations) = Len(latex_citations)
         /\ \A i \in 1..Len(latex_citations) :
              \/ \E j \in 1..Len(ALIAS) :
                   ALIAS[j][1] = latex_citations[i] /\ dblp_citations[i] = ALIAS[j][2]
              \/ /\ \A j \in 1..Len(ALIAS) : ALIAS[j][1] # latex_citations[i]
                 /\ dblp_citations[i] = latex_citations[i]
    /\ \A i \in 1..Len(attempts) : attempts[i].label \in Range(dblp_citations)

C7_Witness ==
  /\ pc = "done"
  /\ latex_citations = <<>>
  /\ Len(ALIAS) >= 2
  /\ Len(attempts) = Len(ALIAS)
  /\ \A i \in 1..Len(ALIAS) : attempts[i].label = ALIAS[i][2]

(***************************************************************************)
(* C8: with --aux <name> the extractor reads <name> if it exists, else     *)
(* <name>.aux if that exists, and returns the keys of the file it read;    *)
(* the run ends with a non-zero status before any fetch, without output,   *)
(* only when neither file exists.                                          *)
(***************************************************************************)
C8_AuxFallback ==
  (args.aux /\ ArgsOk /\ pc \notin {"start", "aux"} /\ attempts = <<>>) =>
    /\ (~fs.name.exists /\ ~fs.aux.exists) =>
         pc = "exit" /\ status # 0 /\ ~outfile.written
    /\ (fs.name.exists \/ fs.aux.exists) =>
         /\ ~Stopped
         /\ pc = "keys" =>
              latex_citations = ExtractCitations(IF fs.name.exists THEN fs.name.lines
                                                 ELSE fs.aux.lines)

(***************************************************************************)
(* C9: a cancellation during the fetch of a key ends the run there: no     *)
(* later key is fetched and the output file is never written; the output   *)
(* file is written only after the loop has run over every key.             *)
(***************************************************************************)
C9_Cancellation ==
  /\ \A i \in 1..Len(attempts) :
       attempts[i].outcome.kind = "interrupt" =>
         i = Len(attempts) /\ pc = "exit" /\ ~outfile.written
  /\ outfile.written =>
       idx = Len(dblp_citations) /\ Len(attempts) = Len(dblp_citations)

C9_Witness ==
  /\ attempts # <<>>
  /\ attempts[Len(attempts)].outcome.kind = "interrupt"
  /\ fetch_data # <<>>
  /\ Len(attempts) < Len(dblp_citations)
  /\ pc = "exit"
  /\ ~outfile.written

(***************************************************************************)
(* C4: load_references returns the sorted list of the distinct non-blank   *)
(* keys of the comma-separated brace arguments of all \citation{...} and   *)
(* \abx@aux@cite{...} lines, the argument being the text between the first *)
(* brace after the marker and the next closing brace; no blank entry.      *)
(***************************************************************************)
\* the brace argument of a line, << >> for a line without a marker
CitationArgument(l) ==
  LET c == Find(l, CitationMarker, 0)
      x == IF c >= 0 THEN c + Len(CitationMarker) - 1
           ELSE IF Find(l, AbxMarker, 0) >= 0
           THEN Find(l, AbxMarker, 0) + Len(AbxMarker) - 1
           ELSE -1
      z == Find(l, <<"}">>, x)
  IN  IF x < 0 THEN <<>>
      ELSE IF z < 0 THEN SliceFrom(l, x + 1)
      ELSE Slice(l, x + 1, z)

CitedKeys(file) ==
  LET entries == UNION {Range(Split(CitationArgument(StrippedLines(file)[i]), ",")) :
                          i \in 1..Len(file)}
  IN  {k \in entries : Strip(k, Whitespace) # <<>>}

C4_SortedDistinctKeys ==
  (args.aux /\ pc = "keys") =>
    /\ latex_citations = Sorted(CitedKeys(fs.name.lines))
    /\ \A i \in 1..Len(latex_citations) : latex_citations[i] # <<>>

(***************************************************************************)
(* C10: once the alias files are read, whenever the reverse table maps a   *)
(* canonical key k (or a DBLP key without its first 5 characters) to an    *)
(* alias a, the forward table maps a to k; an alias registered again with  *)
(* another key leaves no reverse entry for the old key.                    *)
(***************************************************************************)
C10_Bidirectional ==
  pc = "resolve" =>
    \A i \in 1..Len(REVALIAS) :
      LET k == REVALIAS[i][1]
          a == REVALIAS[i][2]
      IN  /\ DictHas(ALIAS, a)
          /\ \/ DictGet(ALIAS, a) = k
             \/ /\ Contains(DictGet(ALIAS, a), <<"D", "B", "L", "P">>)
                /\ SliceFrom(DictGet(ALIAS, a), 5) = k

====
